---- MODULE Spec2Model ----
(***************************************************************************)
(* Multi-agent debate RAG system: the debate orchestrator                  *)
(* (MultiAgentDebateSystem), the debating agents (RagDebater) and the      *)
(* judge (QuizJudge).                                                      *)
(*                                                                         *)
(* Text is modelled as a sequence of tokens (TLA+ strings).  The tokens    *)
(* "\n" (whitespace), "FENCE" (a markdown fence: three backquotes, which  *)
(* a TLA+ string cannot hold) and "json" (the tag after an opening fence)  *)
(* have the meaning the code gives them; every other token is opaque.      *)
(* An outcome of an external call is a record [exc, text]: exc = "" when   *)
(* the call returned text, otherwise exc is the class of the exception it  *)
(* raised and text is str(e).                                              *)
(***************************************************************************)
EXTENDS Integers, Sequences, FiniteSets, TLC

\* ---------------------------------------------------------------- bounds
MaxRounds == 2

MaxTextLen == 3

\* ------------------------------------------------------- text primitives
NL == "\n"

FENCE == "FENCE"

TAG == "json"

IsSpace(tok) == tok = NL

RECURSIVE LStrip(_)
LStrip(s) ==
  IF s = <<>> THEN <<>>
  ELSE IF IsSpace(Head(s)) THEN LStrip(Tail(s)) ELSE s

RECURSIVE RStrip(_)
RStrip(s) ==
  IF s = <<>> THEN <<>>
  ELSE IF IsSpace(s[Len(s)]) THEN RStrip(SubSeq(s, 1, Len(s) - 1)) ELSE s

\* str.strip()
Strip(s) == RStrip(LStrip(s))

\* sep.join(parts)
RECURSIVE Join(_, _)
Join(parts, sep) ==
  IF parts = <<>> THEN <<>>
  ELSE IF Len(parts) = 1 THEN parts[1]
  ELSE parts[1] \o sep \o Join(Tail(parts), sep)

\* sep occurs in s at position i
OccursAt(s, sep, i) ==
  /\ i >= 1
  /\ i + Len(sep) - 1 <= Len(s)
  /\ SubSeq(s, i, i + Len(sep) - 1) = sep

\* the Python test "sep in s"
Contains(s, sep) == \E i \in 1..Len(s) : OccursAt(s, sep, i)

\* s.split(sep): the pieces between the non-overlapping occurrences of sep,
\* scanned left to right
RECURSIVE Split(_, _)
Split(s, sep) ==
  IF ~Contains(s, sep) THEN <<s>>
  ELSE LET i == CHOOSE j \in 1..Len(s) :
                  /\ OccursAt(s, sep, j)
                  /\ \A k \in 1..(j - 1) : ~OccursAt(s, sep, k)
       IN <<SubSeq(s, 1, i - 1)>> \o Split(SubSeq(s, i + Len(sep), Len(s)), sep)

\* s[-n:]
LastN(s, n) == IF Len(s) <= n THEN s ELSE SubSeq(s, Len(s) - n + 1, Len(s))

\* outcomes of an external call
Returned(text) == [exc |-> "", text |-> text]

Raised(cls, msg) == [exc |-> cls, text |-> <<msg>>]

\* ------------------------------------------------------------ the inputs
Topics == {"Photosynthesis", "Entropy"}

\* what model.generate_content(prompt).text can do in an agent's turn
ArgumentOutcomes ==
  { Returned(<<NL, "argA", NL>>), Returned(<<"argB">>), Raised("Exception", "boom") }

\* what model.generate_content(query_prompt).text can do
QueryOutcomes == { Returned(<<NL, "query", NL>>), Raised("Exception", "boom") }

\* what retriever.retrieve(search_query, k=3) can do: the texts of the
\* documents it returns, or the exception it raises
RetrievalOutcomes ==
  { [exc |-> "", docs |-> <<"docA">>],
    [exc |-> "", docs |-> <<"docA", "docB", "docC">>],
    [exc |-> "ValueError", docs |-> <<>>] }

\* ------------------------------------------------------------ prompts.py
RECURSIVE HistoryLines(_, _)
HistoryLines(debate_history, i) ==
  IF i > Len(debate_history) THEN <<>>
  ELSE <<(<<"Round ", ToString(i), ": ">> \o debate_history[i])>>
         \o HistoryLines(debate_history, i + 1)

history_text(debate_history) ==
  IF debate_history # <<>>
  THEN Join(HistoryLines(debate_history, 1), <<NL>>)
  ELSE <<"No previous arguments.">>

get_proponent_prompt(topic_, evidence, debate_history) ==
  <<"PROPONENT_SYSTEM_PROMPT", "Topic: ", topic_, "Retrieved Evidence:">>
    \o evidence \o <<"Previous Debate History:">> \o history_text(debate_history)
    \o <<"Now, construct your argument supporting the topic.">>

get_opponent_prompt(topic_, evidence, debate_history) ==
  <<"OPPONENT_SYSTEM_PROMPT", "Topic: ", topic_, "Retrieved Evidence:">>
    \o evidence \o <<"Previous Debate History:">> \o history_text(debate_history)
    \o <<"Now, construct your argument challenging the topic.">>

get_judge_prompt(topic_, full_debate_transcript) ==
  <<"JUDGE_SYSTEM_PROMPT", "Topic: ", topic_, "Complete Debate Transcript:">>
    \o full_debate_transcript
    \o <<"Now, generate the quiz question based on this debate.">>

\* ------------------------------------------------------- base_debater.py
\* the prompt _generate_search_query sends: the topic and the last two
\* entries of the history
query_prompt(role, topic_, debate_history) ==
  <<(IF role = "proponent" THEN "You are a Proponent researching the topic: "
                           ELSE "You are an Opponent researching the topic: "),
    topic_, "Debate History:">>
    \o (IF debate_history # <<>>
        THEN Join(LastN(debate_history, 2), <<NL>>)
        ELSE <<"No previous arguments.">>)
    \o <<"Generate a concise search query (1-5 words)">>

\* _generate_search_query with one fallback for both roles
_generate_search_query_one_fallback(role, topic_, debate_history, qOut) ==
  IF qOut.exc = "" THEN Strip(qOut.text) ELSE <<topic_>>

\* RagDebater._generate_search_query, given what the generation call did
_generate_search_query(role, topic_, debate_history, qOut) ==
  IF qOut.exc = ""
  THEN Strip(qOut.text)
  ELSE IF role = "proponent" THEN <<topic_>> ELSE <<"limitations of ", topic_>>

RECURSIVE EvidenceItems(_, _)
EvidenceItems(docs, i) ==
  IF i > Len(docs) THEN <<>>
  ELSE << <<"[Evidence ", ToString(i), "]: ", docs[i]>> >> \o EvidenceItems(docs, i + 1)

\* think_and_speak without the try around the generation of the argument
think_and_speak_uncaught(name, role, own_history, topic_, history_arg, qOut, rOut, gOut) ==
  [exc |-> gOut.exc,
   ret |-> Strip(gOut.text),
   own_history |-> IF gOut.exc = ""
                   THEN Append(own_history, <<name, ": ">> \o Strip(gOut.text))
                   ELSE own_history,
   search_query |-> IF qOut.exc = "" THEN Strip(qOut.text) ELSE <<topic_>>,
   evidence |-> <<"No evidence retrieved.">>,
   prompt |-> <<>>]

\* RagDebater.think_and_speak of the agent (name, role) whose private history
\* is own_history, given what its three external calls did.  The result is
\* [exc, ret, own_history, search_query, evidence, prompt]: exc is the
\* exception that leaves the method ("" when it returns ret).
think_and_speak(name, role, own_history, topic_, history_arg, qOut, rOut, gOut) ==
  LET debate_history == history_arg
      search_query == _generate_search_query(role, topic_, debate_history, qOut)
      evidence == IF rOut.exc = ""
                  THEN Join(EvidenceItems(rOut.docs, 1), <<NL, NL>>)
                  ELSE <<"No evidence retrieved.">>
      prompt == IF role = "proponent"
                THEN get_proponent_prompt(topic_, evidence, debate_history)
                ELSE get_opponent_prompt(topic_, evidence, debate_history)
      argument == Strip(gOut.text)
  IN IF gOut.exc = ""
     THEN [exc |-> "", ret |-> argument,
           own_history |-> Append(own_history, <<name, ": ">> \o argument),
           search_query |-> search_query, evidence |-> evidence, prompt |-> prompt]
     ELSE [exc |-> "", ret |-> <<name, " encountered an error: ">> \o gOut.text,
           own_history |-> own_history,
           search_query |-> search_query, evidence |-> evidence, prompt |-> prompt]

\* ---------------------------------------------------------------- JSON
\* A JSON value: a dictionary [kind |-> "dict", fields |-> record of values],
\* or a string, a list of strings, or a number.
JStr(s) == [kind |-> "str", s |-> s, items |-> <<>>]

JList(items) == [kind |-> "list", s |-> <<>>, items |-> items]

JInt == [kind |-> "int", s |-> <<>>, items |-> <<>>]

JDict(fields) == [kind |-> "dict", fields |-> fields]

\* The tokens that are JSON documents, and the value json.loads gives each.
\* Every other token ("junk", FENCE, TAG) is not JSON.
JsonDocs == { "{ok}", "{empty}", "{nokey}", "{dist2}", "{distStr}", "[keys]", "7" }

json_value(tok) ==
  CASE tok = "{ok}" ->
         JDict([question |-> JStr(<<"Q">>), correct_answer |-> JStr(<<"A">>),
                distractors |-> JList(<<"d1", "d2", "d3">>),
                explanation |-> JStr(<<"E">>)])
    [] tok = "{empty}" ->
         JDict([question |-> JStr(<<>>), correct_answer |-> JStr(<<>>),
                distractors |-> JList(<<"d1", "d2", "d3">>),
                explanation |-> JStr(<<>>)])
    [] tok = "{nokey}" ->
         JDict([question |-> JStr(<<"Q">>), correct_answer |-> JStr(<<"A">>),
                distractors |-> JList(<<"d1", "d2", "d3">>)])
    [] tok = "{dist2}" ->
         JDict([question |-> JStr(<<"Q">>), correct_answer |-> JStr(<<"A">>),
                distractors |-> JList(<<"d1", "d2">>),
                explanation |-> JStr(<<"E">>)])
    [] tok = "{distStr}" ->
         JDict([question |-> JStr(<<"Q">>), correct_answer |-> JStr(<<"A">>),
                distractors |-> JStr(<<"d", "d", "d">>),
                explanation |-> JStr(<<"E">>)])
    [] tok = "[keys]" ->
         JList(<<"question", "correct_answer", "distractors", "explanation">>)
    [] tok = "7" -> JInt

\* json.loads(text): whitespace around the document is allowed, anything else
\* is a JSONDecodeError
json_decodes(text) == Len(Strip(text)) = 1 /\ Strip(text)[1] \in JsonDocs

json_loads(text) == json_value(Strip(text)[1])

\* len(v)
PyLen(v) == IF v.kind = "list" THEN Len(v.items) ELSE Len(v.s)

\* ---------------------------------------------------------------- judge.py
required_keys == <<"question", "correct_answer", "distractors", "explanation">>

\* the test "key in quiz_data": membership of a dictionary or a list,
\* containment in a string; a TypeError for anything else
key_in(key, quiz_data) ==
  CASE quiz_data.kind = "dict" -> key \in DOMAIN quiz_data.fields
    [] quiz_data.kind = "list" -> \E i \in 1..Len(quiz_data.items) : quiz_data.items[i] = key
    [] quiz_data.kind = "str" -> \E i \in 1..Len(quiz_data.s) : quiz_data.s[i] = key
    [] OTHER -> FALSE

\* extract_json that knows only the fence without the json tag
extract_json_untagged(response_text) ==
  IF Contains(response_text, <<FENCE>>)
  THEN Strip(Split(Split(response_text, <<FENCE>>)[2], <<FENCE>>)[1])
  ELSE response_text

\* lines 47-50: the text between the first pair of fences, when there is one
extract_json(response_text) ==
  IF Contains(response_text, <<FENCE, TAG>>)
  THEN Strip(Split(Split(response_text, <<FENCE, TAG>>)[2], <<FENCE>>)[1])
  ELSE IF Contains(response_text, <<FENCE>>)
       THEN Strip(Split(Split(response_text, <<FENCE>>)[2], <<FENCE>>)[1])
       ELSE response_text

\* validate that checks the length of distractors but not that it is a list
validate_length_only(quiz_data) ==
  IF quiz_data.kind # "dict"
  THEN [exc |-> "TypeError", text |-> <<"not a dictionary">>]
  ELSE IF \E i \in 1..4 : ~key_in(required_keys[i], quiz_data)
  THEN [exc |-> "ValueError", text |-> <<"Missing required key">>]
  ELSE IF PyLen(quiz_data.fields.distractors) # 3
  THEN [exc |-> "ValueError", text |-> <<"distractors must be a list of 3 items">>]
  ELSE [exc |-> "", text |-> <<>>]

\* lines 55-61: the exception the validation of quiz_data raises ("" for none)
validate(quiz_data) ==
  IF quiz_data.kind \notin {"dict", "list", "str"}
  THEN [exc |-> "TypeError", text |-> <<"argument of type 'int' is not iterable">>]
  ELSE IF \E i \in 1..4 : ~key_in(required_keys[i], quiz_data)
  THEN LET i == CHOOSE j \in 1..4 :
                  /\ ~key_in(required_keys[j], quiz_data)
                  /\ \A k \in 1..(j - 1) : key_in(required_keys[k], quiz_data)
       IN [exc |-> "ValueError", text |-> <<"Missing required key: ", required_keys[i]>>]
  ELSE IF quiz_data.kind # "dict"
  THEN [exc |-> "TypeError",
        text |-> <<(IF quiz_data.kind = "list"
                    THEN "list indices must be integers or slices, not str"
                    ELSE "string indices must be integers")>>]
  ELSE IF quiz_data.fields.distractors.kind # "list"
          \/ PyLen(quiz_data.fields.distractors) # 3
  THEN [exc |-> "ValueError", text |-> <<"distractors must be a list of 3 items">>]
  ELSE [exc |-> "", text |-> <<>>]

\* lines 42-64, the body of the try: [exc, text, bound, quiz_data], where exc
\* is the exception raised in it ("" for none, text is str(e)) and bound says
\* whether response_text was assigned before it was raised
try_body(jOut) ==
  IF jOut.exc # ""
  THEN [exc |-> jOut.exc, text |-> jOut.text, bound |-> FALSE, quiz_data |-> JInt]
  ELSE LET response_text == extract_json(Strip(jOut.text))
       IN IF ~json_decodes(response_text)
          THEN [exc |-> "JSONDecodeError", text |-> <<"Expecting value">>,
                bound |-> TRUE, quiz_data |-> JInt]
          ELSE LET quiz_data == json_loads(response_text)
                   v == validate(quiz_data)
               IN [exc |-> v.exc, text |-> v.text, bound |-> TRUE,
                   quiz_data |-> quiz_data]

\* lines 70-75
json_fallback ==
  [question |-> JStr(<<"Error generating question. Please check logs.">>),
   correct_answer |-> JStr(<<"N/A">>),
   distractors |-> JList(<<"N/A", "N/A", "N/A">>),
   explanation |-> JStr(<<"JSON parsing failed.">>)]

\* lines 78-83
error_fallback(text) ==
  [question |-> JStr(<<"Error: ">> \o text),
   correct_answer |-> JStr(<<"N/A">>),
   distractors |-> JList(<<"N/A", "N/A", "N/A">>),
   explanation |-> JStr(<<"Quiz generation failed.">>)]

\* QuizJudge.generate_quiz, given what the generation call did: [exc, path,
\* quiz], where exc is the exception that leaves the method ("" when it
\* returns quiz) and path names the return statement taken.  The handler of
\* JSONDecodeError logs response_text[:500] (line 68) before it returns.
QuizJudge_generate_quiz(jOut) ==
  LET body == try_body(jOut)
  IN IF body.exc = ""
     THEN [exc |-> "", path |-> "success", quiz |-> body.quiz_data.fields]
     ELSE IF body.exc = "JSONDecodeError"
     THEN IF body.bound
          THEN [exc |-> "", path |-> "json_fallback", quiz |-> json_fallback]
          ELSE [exc |-> "UnboundLocalError", path |-> "raised", quiz |-> json_fallback]
     ELSE [exc |-> "", path |-> "error_fallback", quiz |-> error_fallback(body.text)]

\* what model.generate_content(prompt) can raise in the judge
JudgeRaiseOutcomes ==
  { Raised("Exception", "boom"), Raised("JSONDecodeError", "Expecting value") }

\* what the generation call of the judge can do at the end of a pipeline run
PipelineJudgeOutcomes ==
  { Returned(<<tok>>) : tok \in JsonDocs \cup {"junk"} }
    \cup { Returned(<<FENCE, TAG, NL, "{ok}", NL, FENCE>>) }
    \cup JudgeRaiseOutcomes

JudgeAlphabet == {NL, FENCE, TAG, "junk"} \cup JsonDocs

\* the generation texts the judge is tried on
JudgeTexts == UNION { [1..n -> JudgeAlphabet] : n \in 0..MaxTextLen }

\* X wrapped in a fenced block, with or without the json tag
FencedJson(x) == <<FENCE, TAG, NL>> \o x \o <<NL, FENCE>>

FencedPlain(x) == <<FENCE, NL>> \o x \o <<NL, FENCE>>

\* the outcomes a generation capability of kind cap allows among outcomes
Allowed(cap, outcomes) ==
  IF cap = "always_raises" THEN { o \in outcomes : o.exc # "" } ELSE outcomes

\* ------------------------------------------------------ rag/retriever.py
\* config.py line 20: TOP_K_RETRIEVAL = int(os.getenv("TOP_K_RETRIEVAL", "3"))
TOP_K_RETRIEVAL == 3

\* the largest k a caller passes to retrieve
MaxK == 4

\* the document lists a caller passes to build_index
DocumentLists ==
  {<<>>, <<"docA">>, <<"docB", "docA">>, <<"docA", "docB", "docC">>}

Queries == {"near docA", "near docC"}

\* self.embedder.encode(...): one fixed embedding per text, here a point on
\* a line
encode(text) ==
  CASE text = "docA" -> 0
    [] text = "docB" -> 4
    [] text = "docC" -> 9
    [] text = "near docA" -> 1
    [] text = "near docC" -> 7
    [] OTHER -> 20

\* IndexFlatL2 reports squared L2 distances
L2(u, v) == (u - v) * (u - v)

\* line 23-30: index = None, and line 44-45: an IndexFlatL2 with its vectors
NoneIndex == [none |-> TRUE, vectors |-> <<>>]

IndexFlatL2(vectors) == [none |-> FALSE, vectors |-> vectors]

ntotal(ix) == Len(ix.vectors)

\* the metadata argument of build_index: None, or the parallel list that
\* pdf_ingest.py builds, {"source", "chunk_index"} per chunk
NoMetadata == [given |-> FALSE, list |-> <<>>]

ChunkMetadata(docs) ==
  [given |-> TRUE,
   list |-> [i \in 1..Len(docs) |-> <<"source.pdf", ToString(i - 1)>>]]

\* the k argument of retrieve: None or an int
KArgs ==
  {[given |-> FALSE, n |-> 0]} \cup {[given |-> TRUE, n |-> n] : n \in 0..MaxK}

\* the instance as the methods see it
Instance(ix, docs, meta) == [index |-> ix, documents |-> docs, metadata |-> meta]

\* lines 23-30
NewInstance == Instance(NoneIndex, <<>>, <<>>)

\* lines 32-47: documents and metadata are assigned first (35-36); for an
\* empty list embeddings.shape is (0,), so line 43 raises IndexError before
\* line 44 assigns the index
build_index(self, docs, marg) ==
  LET meta == IF marg.given /\ Len(marg.list) > 0 THEN marg.list
              ELSE [i \in 1..Len(docs) |-> <<>>]
  IN IF Len(docs) = 0
     THEN [exc |-> "IndexError", self |-> Instance(self.index, docs, meta)]
     ELSE [exc |-> "",
           self |-> Instance(IndexFlatL2([i \in 1..Len(docs) |-> encode(docs[i])]),
                             docs, meta)]

\* the two files of one save path
NoFile == [present |-> FALSE, index |-> NoneIndex, documents |-> <<>>, metadata |-> <<>>]

IndexFile(ix) == [present |-> TRUE, index |-> ix, documents |-> <<>>, metadata |-> <<>>]

PklFile(docs, meta) ==
  [present |-> TRUE, index |-> NoneIndex, documents |-> docs, metadata |-> meta]

\* save_index that pickles the documents only
save_index_documents_only(self, dsk, null_ok) ==
  IF self.index.none /\ ~null_ok
  THEN [exc |-> "TypeError", disk |-> dsk]
  ELSE [exc |-> "",
        disk |-> [index_file |-> IndexFile(self.index),
                  pkl_file |-> PklFile(self.documents, <<>>)]]

\* lines 49-63: faiss.write_index (57), then pickle.dump of documents and
\* metadata (60-61). What write_index does with index = None depends on the
\* faiss build: it rejects the argument, or it writes a null index
\* (null_ok); in the first case no file is touched
save_index(self, dsk, null_ok) ==
  IF self.index.none /\ ~null_ok
  THEN [exc |-> "TypeError", disk |-> dsk]
  ELSE [exc |-> "",
        disk |-> [index_file |-> IndexFile(self.index),
                  pkl_file |-> PklFile(self.documents, self.metadata)]]

\* load_index that goes on without the .pkl file
load_index_pkl_optional(self, dsk) ==
  IF ~dsk.index_file.present
  THEN [exc |-> "FileNotFoundError", self |-> self]
  ELSE IF ~dsk.pkl_file.present
  THEN [exc |-> "", self |-> Instance(dsk.index_file.index, self.documents, self.metadata)]
  ELSE [exc |-> "",
        self |-> Instance(dsk.index_file.index, dsk.pkl_file.documents,
                          dsk.pkl_file.metadata)]

\* lines 65-82: the .index file is checked (70-71) and read into self.index
\* (74) before open() of the .pkl file (77) can raise FileNotFoundError
load_index(self, dsk) ==
  IF ~dsk.index_file.present
  THEN [exc |-> "FileNotFoundError", self |-> self]
  ELSE IF ~dsk.pkl_file.present
  THEN [exc |-> "FileNotFoundError",
        self |-> Instance(dsk.index_file.index, self.documents, self.metadata)]
  ELSE [exc |-> "",
        self |-> Instance(dsk.index_file.index, dsk.pkl_file.documents,
                          dsk.pkl_file.metadata)]

Min(a, b) == IF a <= b THEN a ELSE b

\* self.index.search(q, n): the n nearest vectors, nearest first, a tie
\* going to the vector added first; ids count from 1 here
RECURSIVE nearest(_, _, _, _)
nearest(vectors, q, taken, n) ==
  IF n <= 0 \/ taken = 1..Len(vectors)
  THEN <<>>
  ELSE LET rest == (1..Len(vectors)) \ taken
           best == CHOOSE i \in rest :
                     \A j \in rest :
                       \/ L2(vectors[i], q) < L2(vectors[j], q)
                       \/ L2(vectors[i], q) = L2(vectors[j], q) /\ i <= j
       IN <<[idx |-> best, dist |-> L2(vectors[best], q)]>>
            \o nearest(vectors, q, taken \cup {best}, n - 1)

search(ix, q, n) == nearest(ix.vectors, q, {}, n)

\* line 89: k = k or TOP_K_RETRIEVAL
effective_k(karg) ==
  IF karg.given /\ karg.n # 0 THEN karg.n ELSE TOP_K_RETRIEVAL

\* retrieve whose guard looks at the index only
retrieve_index_guard_only(self, query, karg) ==
  IF self.index.none
  THEN [exc |-> "ValueError", results |-> <<>>]
  ELSE LET hits == search(self.index, encode(query),
                          Min(effective_k(karg), ntotal(self.index)))
           kept == SelectSeq(hits, LAMBDA h : h.idx <= Len(self.documents))
       IN IF \E i \in 1..Len(kept) : kept[i].idx > Len(self.metadata)
          THEN [exc |-> "IndexError", results |-> <<>>]
          ELSE [exc |-> "",
                results |-> [i \in 1..Len(kept) |->
                               [text |-> self.documents[kept[i].idx],
                                metadata |-> self.metadata[kept[i].idx],
                                distance |-> kept[i].dist]]]

\* lines 84-109: the guard (86-87), the search for min(k, ntotal) vectors
\* (96), and one result per hit whose id is below len(documents) (99-106);
\* metadata[idx] raises IndexError past the end of the list
retrieve(self, query, karg) ==
  IF self.index.none \/ Len(self.documents) = 0
  THEN [exc |-> "ValueError", results |-> <<>>]
  ELSE LET hits == search(self.index, encode(query),
                          Min(effective_k(karg), ntotal(self.index)))
           kept == SelectSeq(hits, LAMBDA h : h.idx <= Len(self.documents))
       IN IF \E i \in 1..Len(kept) : kept[i].idx > Len(self.metadata)
          THEN [exc |-> "IndexError", results |-> <<>>]
          ELSE [exc |-> "",
                results |-> [i \in 1..Len(kept) |->
                               [text |-> self.documents[kept[i].idx],
                                metadata |-> self.metadata[kept[i].idx],
                                distance |-> kept[i].dist]]]

\* ---------------------------------------------------------------- main.py
VARIABLES
  MAX_DEBATE_ROUNDS,   \* config.py: int(os.getenv("MAX_DEBATE_ROUNDS", "2"))
  capability,          \* the generation capability: "any" or "always_raises"
  pc,                  \* where the run is
  mode,                \* the entry point that was called
  topic,
  requested,           \* the num_rounds argument: [given, n]
  num_rounds,          \* run_debate's local after line 60
  round_num,
  debate_history,      \* run_debate's local list of transcript entries
  full_transcript,     \* what run_debate returns
  proponent_history,   \* self.proponent.debate_history
  opponent_history,    \* self.opponent.debate_history
  calls,               \* the think_and_speak invocations so far: [agent, history]
  last_turn,           \* the think_and_speak call in progress or just returned
  judge_text,          \* the text X the judge is tried on
  judge_wrap,          \* how X was wrapped: "none", "json", "plain", "raise"
  judge_response,      \* what the judge's generation call did
  judge_result,        \* what QuizJudge.generate_quiz did
  quiz,                \* what MultiAgentDebateSystem.generate_quiz returned
  args_rounds,         \* main(): args.rounds, [given, n]
  saved_quiz,          \* the file save_quiz wrote: [written, content]
  index,               \* FAISSRetriever.index
  documents,           \* FAISSRetriever.documents
  metadata,            \* FAISSRetriever.metadata
  disk,                \* the files <path>.index and <path>.pkl
  saved_from,          \* the instance state the last save_index persisted
  life,                \* what build_index and load_index did on this instance
  last_call            \* the last call on the retriever and what it did

vars == <<MAX_DEBATE_ROUNDS, capability, pc, mode, topic, requested, num_rounds, round_num,
          debate_history, full_transcript, proponent_history, opponent_history,
          calls, last_turn, judge_text, judge_wrap, judge_response,
          judge_result, quiz, args_rounds, saved_quiz, index, documents,
          metadata, disk, saved_from, life, last_call>>

cli_vars == <<args_rounds, saved_quiz>>

retriever_vars == <<index, documents, metadata, disk, saved_from, life, last_call>>

debate_vars == <<num_rounds, round_num, debate_history, full_transcript,
                 proponent_history, opponent_history, calls, last_turn>>

judge_vars == <<judge_text, judge_wrap, judge_response, judge_result, quiz>>

NoQuiz == [question |-> JStr(<<>>)]

NoResult == [exc |-> "", path |-> "none", quiz |-> NoQuiz]

NoTurn ==
  [agent |-> "none", q_exc |-> "", r_exc |-> "", g_exc |-> "", g_text |-> <<>>,
   exc |-> "", ret |-> <<>>, search_query |-> <<>>, evidence |-> <<>>,
   prompt |-> <<>>]

\* line 60: num_rounds = num_rounds or MAX_DEBATE_ROUNDS
effective_rounds(arg, default) ==
  IF arg.given /\ arg.n # 0 THEN arg.n ELSE default

\* lines 70 and 75: f"Round {round_num} - Proponent: {proponent_arg}"
transcript_entry(r, label, argument) ==
  <<"Round ", ToString(r), " - ", label, ": ">> \o argument

\* append_turn with a history that starts afresh in every round
append_turn_round_only(history, r, label, argument) ==
  IF label = "Proponent"
  THEN <<(<<"Round ", ToString(r), " - ", label, ": ">> \o argument)>>
  ELSE Append(history, <<"Round ", ToString(r), " - ", label, ": ">> \o argument)

\* lines 70 and 75: debate_history.append(...)
append_turn(history, r, label, argument) ==
  Append(history, transcript_entry(r, label, argument))

\* the think_and_speak call as last_turn records it
TurnRecord(name, qOut, rOut, gOut, res) ==
  [agent |-> name, q_exc |-> qOut.exc, r_exc |-> rOut.exc, g_exc |-> gOut.exc,
   g_text |-> gOut.text, exc |-> res.exc, ret |-> res.ret,
   search_query |-> res.search_query, evidence |-> res.evidence,
   prompt |-> res.prompt]

\* lines 100-101: quiz["topic"] = topic; quiz["debate_transcript"] = ...
add_metadata(q, topic_, debate_transcript) ==
  [k \in DOMAIN q \cup {"topic", "debate_transcript"} |->
     IF k = "topic" THEN JStr(<<topic_>>)
     ELSE IF k = "debate_transcript" THEN JStr(debate_transcript)
     ELSE q[k]]

\* the retriever bookkeeping of a run that makes no call on a retriever
NoSave == [valid |-> FALSE, built |-> FALSE, self |-> NewInstance]

NewLife == [last |-> "new", ever |-> FALSE, first_load |-> FALSE]

NoCall ==
  [op |-> "none", exc |-> "", docs |-> <<>>, query |-> "none",
   k |-> [given |-> FALSE, n |-> 0], results |-> <<>>]

EmptyDisk == [index_file |-> NoFile, pkl_file |-> NoFile]

RetrieverUnused ==
  /\ index = NoneIndex
  /\ documents = <<>>
  /\ metadata = <<>>
  /\ disk = EmptyDisk
  /\ saved_from = NoSave
  /\ life = NewLife
  /\ last_call = NoCall

Init ==
  /\ MAX_DEBATE_ROUNDS \in 1..MaxRounds
  /\ capability \in {"any", "always_raises"}
  /\ pc = "idle"
  /\ mode = "none"
  /\ topic = "none"
  /\ requested = [given |-> FALSE, n |-> 0]
  /\ num_rounds = 0
  /\ round_num = 0
  /\ debate_history = <<>>
  /\ full_transcript = <<>>
  /\ proponent_history = <<>>
  /\ opponent_history = <<>>
  /\ calls = <<>>
  /\ last_turn = NoTurn
  /\ judge_text = <<>>
  /\ judge_wrap = "none"
  /\ judge_response = Returned(<<>>)
  /\ judge_result = NoResult
  /\ quiz = NoQuiz
  /\ args_rounds = [given |-> FALSE, n |-> 0]
  /\ saved_quiz = [written |-> FALSE, content |-> NoQuiz]
  /\ RetrieverUnused

\* lines 60-65: the entry of run_debate with argument arg
EnterDebate(arg) ==
  /\ requested' = arg
  /\ num_rounds' = effective_rounds(arg, MAX_DEBATE_ROUNDS)
  /\ debate_history' = <<>>
  /\ round_num' = IF num_rounds' >= 1 THEN 1 ELSE 0
  /\ pc' = IF num_rounds' >= 1 THEN "proponent" ELSE "joining"
  /\ UNCHANGED <<MAX_DEBATE_ROUNDS, capability, retriever_vars, saved_quiz,
                 full_transcript, proponent_history, opponent_history, calls,
                 last_turn, judge_vars>>

\* system.run_debate(t, n)
run_debate(t, n) ==
  /\ pc = "idle"
  /\ mode' = "run_debate"
  /\ topic' = t
  /\ EnterDebate([given |-> TRUE, n |-> n])
  /\ UNCHANGED args_rounds

\* system.generate_quiz(t): lines 93-94 call run_debate(t)
generate_quiz(t) ==
  /\ pc = "idle"
  /\ mode' = "generate_quiz"
  /\ topic' = t
  /\ EnterDebate([given |-> FALSE, n |-> 0])
  /\ UNCHANGED args_rounds

\* main() with --topic t and args.rounds = r, the index in place:
\* line 142 is system.generate_quiz(args.topic, None)
main(t, r) ==
  /\ pc = "idle"
  /\ mode' = "main"
  /\ topic' = t
  /\ args_rounds' = r
  /\ EnterDebate([given |-> FALSE, n |-> 0])

\* main() returning early: lines 125-132 (ingestion produced no index) and
\* lines 135-139 (FileNotFoundError from MultiAgentDebateSystem())
main_without_index(t, r) ==
  /\ pc = "idle"
  /\ mode' = "main"
  /\ topic' = t
  /\ args_rounds' = r
  /\ pc' = "exited"
  /\ UNCHANGED <<MAX_DEBATE_ROUNDS, capability, retriever_vars, saved_quiz,
                 requested, debate_vars, judge_vars>>

\* lines 69-70
ProponentSpeaks ==
  /\ pc = "proponent"
  /\ \E qOut \in Allowed(capability, QueryOutcomes), rOut \in RetrievalOutcomes,
        gOut \in Allowed(capability, ArgumentOutcomes) :
       LET res == think_and_speak("TA_Proponent", "proponent", proponent_history,
                                  topic, debate_history, qOut, rOut, gOut)
       IN /\ calls' = Append(calls, [agent |-> "TA_Proponent", history |-> debate_history])
          /\ last_turn' = TurnRecord("TA_Proponent", qOut, rOut, gOut, res)
          /\ proponent_history' = res.own_history
          /\ IF res.exc = ""
             THEN /\ debate_history' =
                       append_turn(debate_history, round_num, "Proponent", res.ret)
                  /\ pc' = "opponent"
             ELSE /\ debate_history' = debate_history
                  /\ pc' = "raised"
  /\ UNCHANGED <<MAX_DEBATE_ROUNDS, capability, retriever_vars, cli_vars, mode, topic, requested, num_rounds, round_num,
                 full_transcript, opponent_history, judge_vars>>

\* lines 74-75, and line 65: the next round or the end of the loop
OpponentSpeaks ==
  /\ pc = "opponent"
  /\ \E qOut \in Allowed(capability, QueryOutcomes), rOut \in RetrievalOutcomes,
        gOut \in Allowed(capability, ArgumentOutcomes) :
       LET res == think_and_speak("TA_Opponent", "opponent", opponent_history,
                                  topic, debate_history, qOut, rOut, gOut)
       IN /\ calls' = Append(calls, [agent |-> "TA_Opponent", history |-> debate_history])
          /\ last_turn' = TurnRecord("TA_Opponent", qOut, rOut, gOut, res)
          /\ opponent_history' = res.own_history
          /\ IF res.exc = ""
             THEN /\ debate_history' =
                       append_turn(debate_history, round_num, "Opponent", res.ret)
                  /\ round_num' = IF round_num < num_rounds THEN round_num + 1 ELSE round_num
                  /\ pc' = IF round_num < num_rounds THEN "proponent" ELSE "joining"
             ELSE /\ debate_history' = debate_history
                  /\ round_num' = round_num
                  /\ pc' = "raised"
  /\ UNCHANGED <<MAX_DEBATE_ROUNDS, capability, retriever_vars, cli_vars, mode, topic, requested, num_rounds,
                 full_transcript, proponent_history, judge_vars>>

\* lines 78-80: run_debate returns, to its caller or into generate_quiz
ReturnTranscript ==
  /\ pc = "joining"
  /\ full_transcript' = Join(debate_history, <<NL>>)
  /\ pc' = IF mode = "run_debate" THEN "returned" ELSE "judge"
  /\ last_turn' = NoTurn
  /\ UNCHANGED <<MAX_DEBATE_ROUNDS, capability, retriever_vars, cli_vars, mode, topic, requested, num_rounds, round_num,
                 debate_history, proponent_history, opponent_history, calls,
                 judge_vars>>

\* system.generate_quiz(topic, transcript) on the transcript run_debate returned
generate_quiz_from_transcript ==
  /\ pc = "returned"
  /\ mode' = "generate_quiz"
  /\ pc' = "judge"
  /\ UNCHANGED <<MAX_DEBATE_ROUNDS, capability, retriever_vars, cli_vars, topic, requested, debate_vars, judge_vars>>

\* lines 97-103
JudgeGenerates ==
  /\ pc = "judge"
  /\ \E jOut \in Allowed(capability, PipelineJudgeOutcomes) :
       LET res == QuizJudge_generate_quiz(jOut)
       IN /\ judge_response' = jOut
          /\ judge_result' = res
          /\ IF res.exc = ""
             THEN /\ quiz' = add_metadata(res.quiz, topic, full_transcript)
                  /\ pc' = "done"
             ELSE /\ quiz' = quiz
                  /\ pc' = "raised"
  /\ UNCHANGED <<MAX_DEBATE_ROUNDS, capability, retriever_vars, cli_vars, mode, topic, requested, debate_vars,
                 judge_text, judge_wrap>>

\* json.dump(quiz, f, indent=2): the object written has the keys and the
\* values of the dict it was given
json_dump(q) == [k \in DOMAIN q |-> q[k]]

\* lines 105-110: system.save_quiz(quiz, output_path)
save_quiz ==
  /\ pc = "done"
  /\ saved_quiz' = [written |-> TRUE, content |-> json_dump(quiz)]
  /\ pc' = "saved"
  /\ UNCHANGED <<MAX_DEBATE_ROUNDS, capability, retriever_vars, args_rounds,
                 mode, topic, requested, debate_vars, judge_vars>>

\* the values of --rounds: omitted (default=None) or an int
RoundsArgs ==
  {[given |-> FALSE, n |-> 0]} \cup {[given |-> TRUE, n |-> n] : n \in 1..MaxRounds}

Next ==
  \/ \E t \in Topics, n \in 0..MaxRounds : run_debate(t, n)
  \/ \E t \in Topics : generate_quiz(t)
  \/ \E t \in Topics, r \in RoundsArgs : main(t, r)
  \/ \E t \in Topics, r \in RoundsArgs : main_without_index(t, r)
  \/ save_quiz
  \/ ProponentSpeaks
  \/ OpponentSpeaks
  \/ ReturnTranscript
  \/ generate_quiz_from_transcript
  \/ JudgeGenerates

Spec == Init /\ [][Next]_vars

\* --------------------------------------------- the judge on its own
InitJudge ==
  /\ MAX_DEBATE_ROUNDS = 1
  /\ capability = "any"
  /\ pc = "judge_idle"
  /\ mode = "none"
  /\ topic = "Photosynthesis"
  /\ requested = [given |-> FALSE, n |-> 0]
  /\ num_rounds = 0
  /\ round_num = 0
  /\ debate_history = <<>>
  /\ full_transcript = <<>>
  /\ proponent_history = <<>>
  /\ opponent_history = <<>>
  /\ calls = <<>>
  /\ last_turn = NoTurn
  /\ judge_text \in JudgeTexts
  /\ judge_wrap = "none"
  /\ judge_response = Returned(<<>>)
  /\ judge_result = NoResult
  /\ quiz = NoQuiz
  /\ args_rounds = [given |-> FALSE, n |-> 0]
  /\ saved_quiz = [written |-> FALSE, content |-> NoQuiz]
  /\ RetrieverUnused

\* judge.generate_quiz(topic, transcript) when the generation call does jOut
JudgeCall(wrap, jOut) ==
  /\ pc = "judge_idle"
  /\ judge_wrap' = wrap
  /\ judge_response' = jOut
  /\ judge_result' = QuizJudge_generate_quiz(jOut)
  /\ pc' = "judge_done"
  /\ UNCHANGED <<MAX_DEBATE_ROUNDS, capability, retriever_vars, cli_vars, mode, topic, requested, debate_vars,
                 judge_text, quiz>>

JudgeBare == JudgeCall("none", Returned(judge_text))

JudgeFencedJson == JudgeCall("json", Returned(FencedJson(judge_text)))

JudgeFencedPlain == JudgeCall("plain", Returned(FencedPlain(judge_text)))

JudgeRaises == \E jOut \in JudgeRaiseOutcomes : JudgeCall("raise", jOut)

NextJudge ==
  \/ JudgeBare
  \/ JudgeFencedJson
  \/ JudgeFencedPlain
  \/ JudgeRaises

SpecJudge == InitJudge /\ [][NextJudge]_vars

\* ------------------------------------------- the retriever on its own
\* the instance the calls act on
self_now == Instance(index, documents, metadata)

\* what an earlier run left under the save path: nothing, one file of the
\* two, or both files of a saved index
PersistedIndex ==
  build_index(NewInstance, <<"docB", "docA">>, NoMetadata).self

InitialDisks ==
  {[disk |-> EmptyDisk, saved_from |-> NoSave],
   [disk |-> [index_file |-> IndexFile(PersistedIndex.index), pkl_file |-> NoFile],
    saved_from |-> NoSave],
   [disk |-> [index_file |-> NoFile,
              pkl_file |-> PklFile(PersistedIndex.documents, PersistedIndex.metadata)],
    saved_from |-> NoSave],
   [disk |-> [index_file |-> IndexFile(PersistedIndex.index),
              pkl_file |-> PklFile(PersistedIndex.documents, PersistedIndex.metadata)],
    saved_from |-> [valid |-> TRUE, built |-> TRUE, self |-> PersistedIndex]]}

InitRetriever ==
  /\ MAX_DEBATE_ROUNDS = 1
  /\ capability = "any"
  /\ pc = "retriever"
  /\ mode = "none"
  /\ topic = "none"
  /\ requested = [given |-> FALSE, n |-> 0]
  /\ num_rounds = 0
  /\ round_num = 0
  /\ debate_history = <<>>
  /\ full_transcript = <<>>
  /\ proponent_history = <<>>
  /\ opponent_history = <<>>
  /\ calls = <<>>
  /\ last_turn = NoTurn
  /\ judge_text = <<>>
  /\ judge_wrap = "none"
  /\ judge_response = Returned(<<>>)
  /\ judge_result = NoResult
  /\ quiz = NoQuiz
  /\ args_rounds = [given |-> FALSE, n |-> 0]
  /\ saved_quiz = [written |-> FALSE, content |-> NoQuiz]
  /\ index = NoneIndex
  /\ documents = <<>>
  /\ metadata = <<>>
  /\ life = NewLife
  /\ last_call = NoCall
  /\ \E d \in InitialDisks : disk = d.disk /\ saved_from = d.saved_from

pipeline_vars ==
  <<MAX_DEBATE_ROUNDS, capability, pc, mode, topic, requested, debate_vars,
    judge_vars, cli_vars>>

CallRecord(op, exc, docs, query, karg, results) ==
  [op |-> op, exc |-> exc, docs |-> docs, query |-> query, k |-> karg,
   results |-> results]

\* FAISSRetriever(): a new instance, the files staying as they are
NewRetriever ==
  /\ pc = "retriever"
  /\ index' = NewInstance.index
  /\ documents' = NewInstance.documents
  /\ metadata' = NewInstance.metadata
  /\ life' = NewLife
  /\ last_call' = CallRecord("__init__", "", <<>>, "none", [given |-> FALSE, n |-> 0], <<>>)
  /\ UNCHANGED <<pipeline_vars, disk, saved_from>>

\* retriever.build_index(docs, marg)
BuildIndex(docs, marg) ==
  /\ pc = "retriever"
  /\ LET res == build_index(self_now, docs, marg)
     IN /\ index' = res.self.index
        /\ documents' = res.self.documents
        /\ metadata' = res.self.metadata
        /\ life' = IF res.exc = ""
                   THEN [last |-> "built", ever |-> TRUE, first_load |-> FALSE]
                   ELSE [last |-> "failed", ever |-> life.ever, first_load |-> FALSE]
        /\ last_call' = CallRecord("build_index", res.exc, docs, "none",
                                   [given |-> FALSE, n |-> 0], <<>>)
  /\ UNCHANGED <<pipeline_vars, disk, saved_from>>

\* retriever.save_index()
SaveIndex ==
  /\ pc = "retriever"
  /\ \E null_ok \in BOOLEAN :
       LET res == save_index(self_now, disk, null_ok)
       IN /\ disk' = res.disk
          /\ saved_from' = IF res.exc = ""
                           THEN [valid |-> TRUE, built |-> life.last = "built",
                                 self |-> self_now]
                           ELSE saved_from
          /\ last_call' = CallRecord("save_index", res.exc, <<>>, "none",
                                     [given |-> FALSE, n |-> 0], <<>>)
  /\ UNCHANGED <<pipeline_vars, index, documents, metadata, life>>

\* retriever.load_index()
LoadIndex ==
  /\ pc = "retriever"
  /\ LET res == load_index(self_now, disk)
     IN /\ index' = res.self.index
        /\ documents' = res.self.documents
        /\ metadata' = res.self.metadata
        /\ life' = IF res.exc = ""
                   THEN [last |-> "loaded", ever |-> TRUE,
                         first_load |-> life.last = "new"]
                   ELSE [last |-> "failed", ever |-> life.ever, first_load |-> FALSE]
        /\ last_call' = CallRecord("load_index", res.exc, <<>>, "none",
                                   [given |-> FALSE, n |-> 0], <<>>)
  /\ UNCHANGED <<pipeline_vars, disk, saved_from>>

\* retriever.retrieve(query, karg)
Retrieve(query, karg) ==
  /\ pc = "retriever"
  /\ LET res == retrieve(self_now, query, karg)
     IN last_call' = CallRecord("retrieve", res.exc, <<>>, query, karg, res.results)
  /\ UNCHANGED <<pipeline_vars, index, documents, metadata, disk, saved_from, life>>

NextRetriever ==
  \/ NewRetriever
  \/ \E docs \in DocumentLists :
       \E marg \in {NoMetadata, ChunkMetadata(docs)} : BuildIndex(docs, marg)
  \/ SaveIndex
  \/ LoadIndex
  \/ \E query \in Queries, karg \in KArgs : Retrieve(query, karg)

SpecRetriever == InitRetriever /\ [][NextRetriever]_vars

\* ------------------------------------------------------------ the claims
IsLabelled(entry, r, label) ==
  /\ Len(entry) >= 5
  /\ SubSeq(entry, 1, 5) = <<"Round ", ToString(r), " - ", label, ": ">>

IsErrorString(text, name) ==
  /\ Len(text) >= 2
  /\ SubSeq(text, 1, 2) = <<name, " encountered an error: ">>

\* C1: run_debate(topic, N) returns a transcript of exactly 2N entries, entry
\* 2r-1 labelled "Round r - Proponent" and entry 2r "Round r - Opponent",
\* for any N given to it and whichever generation calls failed.
C1_TranscriptHas2NEntries ==
  pc = "returned" =>
    /\ Len(debate_history) = 2 * requested.n
    /\ \A r \in 1..requested.n :
         /\ IsLabelled(debate_history[2 * r - 1], r, "Proponent")
         /\ IsLabelled(debate_history[2 * r], r, "Opponent")

\* C2: the k-th turn of the debate is the Proponent's for odd k and the
\* Opponent's for even k, the history passed to it is exactly the first k-1
\* entries of the transcript, and the Opponent's history ends with the entry
\* of the Proponent of the same round.
C2_HistoryIsPrecedingTranscript ==
  /\ Len(calls) <= Len(debate_history) + 1
  /\ \A k \in 1..Len(calls) :
       /\ calls[k].agent = (IF k % 2 = 1 THEN "TA_Proponent" ELSE "TA_Opponent")
       /\ Len(calls[k].history) = k - 1
       /\ Len(debate_history) >= k - 1
       /\ calls[k].history = SubSeq(debate_history, 1, k - 1)
       /\ (k % 2 = 0 => IsLabelled(calls[k].history[k - 1], k \div 2, "Proponent"))

\* a turn of the second round has been taken, after a first round of two turns
C2_Witness == Len(calls) >= 3 /\ Len(calls[3].history) = 2

\* C3: think_and_speak never lets an exception out, whichever of its steps
\* fails, and when the generation of the argument fails it returns
\* "<name> encountered an error: <str(e)>" with its own name.
C3_TurnNeverRaises ==
  /\ last_turn.exc = ""
  /\ (pc = "raised" => judge_result.exc # "")
  /\ (last_turn.agent # "none" /\ last_turn.g_exc # "" =>
        /\ IsErrorString(last_turn.ret, last_turn.agent)
        /\ last_turn.ret = <<last_turn.agent, " encountered an error: ">> \o last_turn.g_text)

\* a turn in which the query generation, the retrieval and the generation of
\* the argument all failed
C3_Witness ==
  /\ last_turn.agent = "TA_Opponent"
  /\ last_turn.q_exc # ""
  /\ last_turn.r_exc # ""
  /\ last_turn.g_exc # ""

\* C10: when the generation call of _generate_search_query fails, the query
\* is exactly the topic for the proponent and "limitations of " + topic for
\* the opponent, whatever the debate history is.
C10_QueryFallback ==
  last_turn.agent # "none" /\ last_turn.q_exc # "" =>
    last_turn.search_query =
      (IF last_turn.agent = "TA_Proponent" THEN <<topic>> ELSE <<"limitations of ", topic>>)

\* the opponent fell back in the second round, with a history of three entries
C10_Witness ==
  /\ last_turn.agent = "TA_Opponent"
  /\ last_turn.q_exc # ""
  /\ Len(calls) = 4
  /\ topic = "Entropy"

\* generate_quiz has returned or raised
JudgeActed == judge_result.path # "none"

\* the text json.loads is given could not be parsed
ParseFailed ==
  /\ judge_response.exc = ""
  /\ ~json_decodes(extract_json(Strip(judge_response.text)))

AllKeys(q) == \A i \in 1..4 : required_keys[i] \in DOMAIN q

\* C4: QuizJudge.generate_quiz never raises: whatever the generation call
\* does, it returns a dictionary with the four required keys.
C4_JudgeNeverRaises ==
  JudgeActed => judge_result.exc = "" /\ AllKeys(judge_result.quiz)

\* C5: generate_quiz(topic) of the pipeline always completes with an
\* artifact; with a capability that always raises and one round, the
\* transcript is two agent-labelled error strings and the artifact is the
\* fallback with "N/A" answer and distractors.
C5_PipelineCompletes ==
  /\ pc # "raised"
  /\ (pc = "done" /\ capability = "always_raises" /\ num_rounds = 1 =>
        /\ Len(debate_history) = 2
        /\ IsErrorString(SubSeq(debate_history[1], 6, Len(debate_history[1])), "TA_Proponent")
        /\ IsErrorString(SubSeq(debate_history[2], 6, Len(debate_history[2])), "TA_Opponent")
        /\ quiz.correct_answer = JStr(<<"N/A">>)
        /\ quiz.distractors = JList(<<"N/A", "N/A", "N/A">>))

\* C6: every artifact generate_quiz returns, on the success path and on both
\* fallback paths, has a distractors list of exactly 3 entries, and an
\* artifact returned as a success has all four required keys.
C6_ThreeDistractors ==
  JudgeActed /\ judge_result.exc = "" =>
    /\ AllKeys(judge_result.quiz)
    /\ judge_result.quiz.distractors.kind = "list"
    /\ Len(judge_result.quiz.distractors.items) = 3

\* a success returned from a fenced generation text
C6_Witness ==
  /\ judge_result.path = "success"
  /\ judge_wrap = "json"
  /\ judge_text = <<"{ok}">>

\* C7: on the success path question, correct_answer and explanation are all
\* non-empty.
C7_SuccessFieldsNonEmpty ==
  judge_result.path = "success" =>
    /\ judge_result.quiz.question.s # <<>>
    /\ judge_result.quiz.correct_answer.s # <<>>
    /\ judge_result.quiz.explanation.s # <<>>

\* C8: on any failure generate_quiz returns the fallback: correct_answer
\* "N/A", distractors three "N/A", and explanation "JSON parsing failed."
\* exactly when the text could not be parsed as JSON, "Quiz generation
\* failed." for every other failure.
C8_FallbackOnAnyFailure ==
  JudgeActed /\ judge_result.path # "success" =>
    /\ judge_result.exc = ""
    /\ judge_result.quiz.correct_answer = JStr(<<"N/A">>)
    /\ judge_result.quiz.distractors = JList(<<"N/A", "N/A", "N/A">>)
    /\ judge_result.quiz.explanation =
         (IF ParseFailed THEN JStr(<<"JSON parsing failed.">>)
                         ELSE JStr(<<"Quiz generation failed.">>))

\* C9: for every generation text X, generate_quiz returns the same result for
\* X wrapped in a fenced block, with or without the json tag, as for X.
C9_FencedSameAsBare ==
  judge_wrap \in {"json", "plain"} =>
    judge_result = QuizJudge_generate_quiz(Returned(judge_text))

\* C9 as amended: the same, for every X that contains no fence of its own.
C9_FencedSameAsBareNoFence ==
  judge_wrap \in {"json", "plain"} /\ ~Contains(judge_text, <<FENCE>>) =>
    judge_result = QuizJudge_generate_quiz(Returned(judge_text))

\* a tagged fenced block around a valid document with whitespace, parsed
C9_Witness ==
  /\ judge_wrap = "json"
  /\ judge_text = <<NL, "{ok}", NL>>
  /\ judge_result.path = "success"


\* C11: under main(), a given --rounds value R is the number of rounds of
\* the debate, and the configured default is used when --rounds is omitted.
C11_CliRoundsHonoured ==
  (mode = "main" /\ pc \notin {"idle", "exited"}) =>
     num_rounds = (IF args_rounds.given THEN args_rounds.n ELSE MAX_DEBATE_ROUNDS)

\* C12: the artifact that save_quiz writes after generate_quiz has at least
\* the keys question, correct_answer, distractors, explanation, topic and
\* method.
C12_ArtifactKeys ==
  saved_quiz.written =>
     {"question", "correct_answer", "distractors", "explanation", "topic",
      "method"} \subseteq DOMAIN saved_quiz.content

\* the entries of a transcript that carry the label, without the five
\* tokens "Round ", r, " - ", label, ": "
RECURSIVE UtterancesOf(_, _)
UtterancesOf(history, label) ==
  IF history = <<>> THEN <<>>
  ELSE LET e == Head(history)
           rest == UtterancesOf(Tail(history), label)
       IN IF Len(e) >= 5 /\ e[4] = label
          THEN <<SubSeq(e, 6, Len(e))>> \o rest
          ELSE rest

\* the entries of a private history without the two tokens name, ": "
Unprefixed(own_history) ==
  [i \in 1..Len(own_history) |-> SubSeq(own_history[i], 3, Len(own_history[i]))]

DebateCompleted == pc \in {"joining", "returned", "judge", "done", "saved"}

\* C18: after a completed debate each agent's private history, name prefix
\* removed, is the sequence of that agent's transcript entries, round label
\* removed, error strings included.
C18_PrivateHistoryMatchesTranscript ==
  DebateCompleted =>
     /\ Unprefixed(proponent_history) = UtterancesOf(debate_history, "Proponent")
     /\ Unprefixed(opponent_history) = UtterancesOf(debate_history, "Opponent")

\* results in order of non-decreasing distance
NonDecreasing(results) ==
  \A i \in 1..(Len(results) - 1) : results[i].distance <= results[i + 1].distance

BuiltOrLoaded == life.last \in {"built", "loaded"}

\* C13: on an index built or loaded with N >= 1 documents, retrieve with a
\* given k >= 1 returns exactly min(k, N) results in order of non-decreasing
\* distance.
C13_RetrieveMinKN ==
  (last_call.op = "retrieve" /\ BuiltOrLoaded /\ Len(documents) >= 1
     /\ last_call.k.given /\ last_call.k.n >= 1)
  => /\ last_call.exc = ""
     /\ Len(last_call.results) = Min(last_call.k.n, Len(documents))
     /\ NonDecreasing(last_call.results)

BothFilesPresent == disk.index_file.present /\ disk.pkl_file.present

\* C14: load_index raises FileNotFoundError when the .index file or the .pkl
\* file is missing, and otherwise leaves the instance with the persisted
\* index, documents and metadata.
C14_LoadIndex ==
  last_call.op = "load_index" =>
     IF BothFilesPresent
     THEN /\ last_call.exc = ""
          /\ index = disk.index_file.index
          /\ documents = disk.pkl_file.documents
          /\ metadata = disk.pkl_file.metadata
     ELSE last_call.exc = "FileNotFoundError"

C14_Witness ==
  /\ last_call.op = "load_index"
  /\ last_call.exc = "FileNotFoundError"
  /\ disk.index_file.present
  /\ ~disk.pkl_file.present

Queryable ==
  \E query \in Queries, karg \in KArgs : retrieve(self_now, query, karg).exc = ""

\* C15: build_index with an empty list fails with the error the code uses
\* for invalid configuration (ValueError) and leaves no queryable index.
C15_EmptyBuildConfigurationError ==
  (last_call.op = "build_index" /\ last_call.docs = <<>>)
  => /\ last_call.exc = "ValueError"
     /\ ~Queryable

\* C16: retrieve on an instance on which no build_index and no load_index
\* has succeeded raises the not-built ValueError and returns nothing.
C16_RetrieveBeforeBuild ==
  (last_call.op = "retrieve" /\ ~life.ever)
  => /\ last_call.exc = "ValueError"
     /\ last_call.results = <<>>

C16_Witness ==
  /\ last_call.op = "retrieve"
  /\ ~life.ever
  /\ life.last = "failed"
  /\ ~index.none

C19_ParallelLengths ==
  /\ ntotal(index) = Len(documents)
  /\ Len(documents) = Len(metadata)

\* C20: a build_index or load_index call that raises leaves index, documents
\* and metadata as they were.
C20_FailedCallKeepsState ==
  [][(last_call'.op \in {"build_index", "load_index"} /\ last_call'.exc # "")
       => UNCHANGED <<index, documents, metadata>>]_vars

====
